---- MODULE Spec2Model ----
(***************************************************************************)
(* Model of medcat/utils/checkpoint.py: the Checkpoint manager, the        *)
(* checkpoint directory it owns and the CDB collaborator's save/load.      *)
(*                                                                         *)
(* A file name is the sequence of the fields of its basename split on      *)
(* "-": "checkpoint-5-10" is <<"checkpoint", "5", "10">>.  The directory   *)
(* is a function from the names of its regular files to their contents    *)
(* (a CDB snapshot, or "partial" for a file whose write was cut short).   *)
(***************************************************************************)
EXTENDS Integers, Sequences, FiniteSets, TLC

VARIABLES
    disk,          \* the checkpoint directory: file name -> content
    dirExists,     \* whether the checkpoint directory exists (os.path.isdir)
    dirHasTag,     \* whether the directory's absolute path contains "checkpoint-"
    steps,         \* Checkpoint._steps
    max_to_keep,   \* Checkpoint._max_to_keep
    file_paths,    \* Checkpoint._file_paths
    count,         \* Checkpoint._count
    op,            \* the last call: its name, the error it raised, the model saved
    ret,           \* the paths os.remove deleted in the last call (purge returns them)
    cdb,           \* the CDB object the last call handed to populate ("fresh": not loaded)
    saved,         \* history of a fresh run: the path, count and model of each successful save
    parent         \* the parent directory of from_last_training: child name -> entry

vars == <<disk, dirExists, dirHasTag, steps, max_to_keep, file_paths, count, op, ret, cdb,
         saved, parent>>

mgr == <<steps, max_to_keep, file_paths, count>>

-----------------------------------------------------------------------------
(* Bounds of the model. *)

MaxCount == 1
MaxFreshCount == 3
MaxKeep == 2
DiskCap == 2

StepsVals == {1, 2}
Counts == 0..MaxCount
FreshCounts == (0..MaxFreshCount) \cup {-1}
Models == {"m1", "m2"}

-----------------------------------------------------------------------------
(* Decimal formatting and parsing of integers, as "%s" % n and int(s) do. *)

Digits == <<"0", "1", "2", "3", "4", "5", "6", "7", "8", "9">>

Str(n) == Digits[n + 1]

IsInt(s) == \E n \in 0..9 : Digits[n + 1] = s

IntOf(s) == CHOOSE n \in 0..9 : Digits[n + 1] = s

\* The fields that the decimal text of n contributes to a name split on "-":
\* "-1" splits into "" and "1".
Dec(n) == IF n < 0 THEN <<"", Str(-n)>> ELSE <<Str(n)>>

\* "checkpoint-%s-%s" % (steps, count), as fields.
CkptName(s, c) == <<"checkpoint">> \o Dec(s) \o Dec(c)

\* Checkpoint._get_steps_and_count: True when int() accepts fields 1 and 2.
Parses(f) == Len(f) >= 3 /\ IsInt(f[2]) /\ IsInt(f[3])

GetSteps(f) == IntOf(f[2])

GetCount(f) == IntOf(f[3])

-----------------------------------------------------------------------------
(* Sequences. *)

Range(s) == {s[i] : i \in DOMAIN s}

Last(s) == s[Len(s)]

\* Mutant: sorted by the steps embedded in each name.
SortedBySteps(s) == \A i, j \in DOMAIN s : i < j => GetSteps(s[i]) <= GetSteps(s[j])

\* Sorted ascending by the count embedded in each name.
SortedByCount(s) == \A i, j \in DOMAIN s : i < j => GetCount(s[i]) <= GetCount(s[j])

\* The orders list.sort(key=count) can give a set of names: every ordering
\* that is ascending by count (the sort is stable and os.listdir's order is
\* arbitrary, so names with equal counts come in any order).
SortedSeqs(S) ==
    {s \in [1..Cardinality(S) -> S] : Range(s) = S /\ SortedByCount(s)}

-----------------------------------------------------------------------------
(* The file system. *)

Files(d) == DOMAIN d

\* "checkpoint-" in the basename: a field that is not the last one ends with
\* the tag.
NameHasTag(f) == \E i \in 1..(Len(f) - 1) : f[i] = "checkpoint"

\* The filter of _get_ckpt_file_paths, applied to the absolute path.
PassesFilter(f) == dirHasTag \/ NameHasTag(f)

EmptyDisk == [f \in {} |-> "m1"]

Remove(d, f) == [g \in Files(d) \ {f} |-> d[g]]

Write(d, f, c) == [g \in Files(d) \cup {f} |-> IF g = f THEN c ELSE d[g]]

Complete(d, f) == f \in Files(d) /\ d[f] \in Models


-----------------------------------------------------------------------------
(* Checkpoint discovery: Checkpoint._get_ckpt_file_paths. *)

\* Mutant: a discovery that leaves out the names it cannot parse.
FilteredSkippingCorrupt(d) == {f \in Files(d) : PassesFilter(f) /\ Parses(f)}

\* The regular files of the directory that pass the filter.
Filtered(d) == {f \in Files(d) : PassesFilter(f)}

\* The sort key raises (ValueError, IndexError) on a name it cannot parse.
ScanFails(d) == \E f \in Filtered(d) : ~Parses(f)

\* The lists the scan can return when it does not raise.
Scans(d) == SortedSeqs(Filtered(d))

-----------------------------------------------------------------------------
(* The last call. *)

NoPath == <<>>

Called(n, e, m, p) == [name |-> n, err |-> e, model |-> m, path |-> p]

-----------------------------------------------------------------------------
(* check_positive, the decorator of __init__ and of the two setters. *)

CheckPositive(v) == v >= 1

DefaultMaxToKeep == 1

\* Checkpoint.__init__: a new manager over the directory.
Construct(s, k) ==
    /\ IF CheckPositive(s) /\ CheckPositive(k)
       THEN /\ steps' = s
            /\ max_to_keep' = k
            /\ file_paths' = <<>>
            /\ count' = 0
            /\ op' = Called("construct", "none", "none", NoPath)
       ELSE /\ UNCHANGED mgr
            /\ op' = Called("construct", "InvalidArgument", "none", NoPath)
    /\ IF CheckPositive(s) /\ CheckPositive(k)
       THEN dirExists' = TRUE
       ELSE UNCHANGED dirExists
    /\ ret' = <<>>
    /\ cdb' = "fresh"
    /\ UNCHANGED <<disk, dirHasTag>>

\* Mutant: the setter without its check_positive decorator.
SetStepsUnchecked(v) ==
    /\ steps' = v
    /\ op' = Called("set_steps", "none", "none", NoPath)
    /\ ret' = <<>>
    /\ cdb' = "fresh"
    /\ UNCHANGED <<disk, dirExists, dirHasTag, max_to_keep, file_paths, count>>

\* steps.setter
SetSteps(v) ==
    /\ IF CheckPositive(v)
       THEN /\ steps' = v
            /\ op' = Called("set_steps", "none", "none", NoPath)
       ELSE /\ UNCHANGED steps
            /\ op' = Called("set_steps", "InvalidArgument", "none", NoPath)
    /\ ret' = <<>>
    /\ cdb' = "fresh"
    /\ UNCHANGED <<disk, dirExists, dirHasTag, max_to_keep, file_paths, count>>

\* max_to_keep.setter
SetMaxToKeep(v) ==
    /\ IF CheckPositive(v)
       THEN /\ max_to_keep' = v
            /\ op' = Called("set_max_to_keep", "none", "none", NoPath)
       ELSE /\ UNCHANGED max_to_keep
            /\ op' = Called("set_max_to_keep", "InvalidArgument", "none", NoPath)
    /\ ret' = <<>>
    /\ cdb' = "fresh"
    /\ UNCHANGED <<disk, dirExists, dirHasTag, steps, file_paths, count>>

-----------------------------------------------------------------------------
(* Checkpoint.load and Checkpoint.restore. *)

\* Mutant: no os.path.isdir check, the listing of a missing directory raises.
ScanResultsNoDirCheck(isdir, d, fp, cnt) ==
    IF ~isdir
    THEN {[err |-> "FileNotFound", fp |-> fp, count |-> cnt]}
    ELSE IF ScanFails(d)
    THEN {[err |-> "CorruptCheckpointName", fp |-> fp, count |-> cnt]}
    ELSE IF Filtered(d) = {}
    THEN {[err |-> "NotFound", fp |-> fp, count |-> cnt]}
    ELSE {[err |-> "none", fp |-> s, count |-> GetCount(Last(s))] : s \in Scans(d)}

\* The start of load and of restore on a path that is a directory or not
\* (isdir) and holds d, for a caller that holds fp and cnt: the error raised,
\* or a scan result and the count of its last element.
ScanResults(isdir, d, fp, cnt) ==
    IF ~isdir
    THEN {[err |-> "NotFound", fp |-> fp, count |-> cnt]}
    ELSE IF ScanFails(d)
    THEN {[err |-> "CorruptCheckpointName", fp |-> fp, count |-> cnt]}
    ELSE IF Filtered(d) = {}
    THEN {[err |-> "NotFound", fp |-> fp, count |-> cnt]}
    ELSE {[err |-> "none", fp |-> s, count |-> GetCount(Last(s))] : s \in Scans(d)}

\* Mutant: a rescan that keeps the paths already held and adds the scan.
RestoreResultsMerging(d, fp, cnt) ==
    {[err |-> r.err, fp |-> IF r.err = "none" THEN fp \o r.fp ELSE r.fp, count |-> r.count]
     : r \in ScanResults(dirExists, d, fp, cnt)}

\* What a rescan of the manager's directory d gives.
RestoreResults(d, fp, cnt) == ScanResults(dirExists, d, fp, cnt)

\* What load returns for a path that is a directory or not (isdir) and holds
\* d: an error, or the fields of a new manager.  __init__ rejects the steps
\* of the latest file when they are not positive.
LoadReturns(isdir, d) ==
    {IF r.err # "none"
     THEN [err |-> r.err, steps |-> 0, max_to_keep |-> 0, fp |-> <<>>, count |-> 0]
     ELSE IF ~CheckPositive(GetSteps(Last(r.fp)))
     THEN [err |-> "InvalidArgument", steps |-> 0, max_to_keep |-> 0, fp |-> <<>>, count |-> 0]
     ELSE [err |-> "none", steps |-> GetSteps(Last(r.fp)), max_to_keep |-> DefaultMaxToKeep,
           fp |-> r.fp, count |-> r.count]
     : r \in ScanResults(isdir, d, <<>>, 0)}

\* Checkpoint.load: a new manager from the scan of the directory; no manager
\* when the scan fails or __init__ rejects the steps of the latest file.
Load ==
    /\ \E r \in LoadReturns(dirExists, disk) :
          /\ IF r.err # "none"
             THEN UNCHANGED mgr
             ELSE /\ steps' = r.steps
                  /\ max_to_keep' = r.max_to_keep
                  /\ file_paths' = r.fp
                  /\ count' = r.count
          /\ op' = Called("load", r.err, "none", NoPath)
    /\ ret' = <<>>
    /\ cdb' = "fresh"
    /\ UNCHANGED <<disk, dirExists, dirHasTag>>

\* Checkpoint.restore
Restore ==
    /\ \E r \in RestoreResults(disk, file_paths, count) :
          /\ file_paths' = r.fp
          /\ count' = r.count
          /\ op' = Called("restore", r.err, "none", NoPath)
    /\ ret' = <<>>
    /\ cdb' = "fresh"
    /\ UNCHANGED <<disk, dirExists, dirHasTag, steps, max_to_keep>>

-----------------------------------------------------------------------------
(* Checkpoint.from_last_training.  The parent is [exists, children]; children
   maps the name of each entry, a sequence of character codes, to
   [isdir, files]. *)

\* a < b as Python compares two str.
StrLess(a, b) ==
    \E i \in 1..(Len(a) + 1) :
        /\ \A j \in 1..(i - 1) : j <= Len(b) /\ a[j] = b[j]
        /\ IF i > Len(a) THEN i <= Len(b) ELSE i <= Len(b) /\ a[i] < b[i]

\* Mutant: element 0 of the sorted listing.
FirstTraining(names) == CHOOSE n \in names : \A m \in names \ {n} : StrLess(n, m)

\* ckpt_parent_folders.sort(); ckpt_parent_folders[-1]
LastTraining(names) == CHOOSE n \in names : \A m \in names \ {n} : StrLess(m, n)

\* The call returns a manager over the child it selects; the manager the
\* caller held, if any, is replaced by it.
FromLastTraining ==
    /\ IF ~parent.exists \/ DOMAIN parent.children = {}
       THEN /\ UNCHANGED <<mgr, disk, dirExists>>
            /\ op' = Called("from_last_training", "NotFound", "none", NoPath)
       ELSE LET child == parent.children[LastTraining(DOMAIN parent.children)] IN
            \E r \in LoadReturns(child.isdir, child.files) :
               /\ IF r.err # "none"
                  THEN UNCHANGED <<mgr, disk, dirExists>>
                  ELSE /\ steps' = r.steps
                       /\ max_to_keep' = r.max_to_keep
                       /\ file_paths' = r.fp
                       /\ count' = r.count
                       /\ disk' = child.files
                       /\ dirExists' = TRUE
               /\ op' = Called("from_last_training", r.err, "none", NoPath)
    /\ ret' = <<>>
    /\ cdb' = "fresh"
    /\ UNCHANGED <<dirHasTag, parent>>

-----------------------------------------------------------------------------
(* Checkpoint.purge *)

\* Mutant: the loop stops before the last (latest) path.
RECURSIVE PurgeLoopKeepsLatest(_, _, _)
PurgeLoopKeepsLatest(s, d, removed) ==
    IF Len(s) <= 1
    THEN [disk |-> d, removed |-> removed]
    ELSE IF Head(s) \in Files(d)
    THEN PurgeLoopKeepsLatest(Tail(s), Remove(d, Head(s)), Append(removed, Head(s)))
    ELSE PurgeLoopKeepsLatest(Tail(s), d, removed)

\* The loop of purge over the scan result s: every listed path that is a
\* regular file is removed.
RECURSIVE PurgeLoop(_, _, _)
PurgeLoop(s, d, removed) ==
    IF s = <<>>
    THEN [disk |-> d, removed |-> removed]
    ELSE IF Head(s) \in Files(d)
    THEN PurgeLoop(Tail(s), Remove(d, Head(s)), Append(removed, Head(s)))
    ELSE PurgeLoop(Tail(s), d, removed)

Purge ==
    /\ IF ~dirExists
       THEN /\ UNCHANGED <<disk, file_paths, count>>
            /\ ret' = <<>>
            /\ op' = Called("purge", "FileNotFound", "none", NoPath)
       ELSE IF ScanFails(disk)
       THEN /\ UNCHANGED <<disk, file_paths, count>>
            /\ ret' = <<>>
            /\ op' = Called("purge", "CorruptCheckpointName", "none", NoPath)
       ELSE \E s \in Scans(disk) :
            LET p == PurgeLoop(s, disk, <<>>) IN
            /\ disk' = p.disk
            /\ ret' = p.removed
            /\ file_paths' = <<>>
            /\ count' = 0
            /\ op' = Called("purge", "none", "none", NoPath)
    /\ cdb' = "fresh"
    /\ UNCHANGED <<dirExists, dirHasTag, steps, max_to_keep>>

-----------------------------------------------------------------------------
(* Checkpoint.save *)

\* Mutant: evicts only while the list holds more than k paths.
RECURSIVE EvictLoopStrict(_, _, _, _)
EvictLoopStrict(fp, d, removed, k) ==
    IF Len(fp) > k
    THEN IF Head(fp) \in Files(d)
         THEN EvictLoopStrict(Tail(fp), Remove(d, Head(fp)), Append(removed, Head(fp)), k)
         ELSE [fp |-> Tail(fp), disk |-> d, removed |-> removed, err |-> "FileNotFound"]
    ELSE [fp |-> fp, disk |-> d, removed |-> removed, err |-> "none"]

\* Mutant: an if in place of the while, evicting one path at most.
EvictOnce(fp, d, removed, k) ==
    IF Len(fp) >= k
    THEN IF Head(fp) \in Files(d)
         THEN [fp |-> Tail(fp), disk |-> Remove(d, Head(fp)),
               removed |-> Append(removed, Head(fp)), err |-> "none"]
         ELSE [fp |-> Tail(fp), disk |-> d, removed |-> removed, err |-> "FileNotFound"]
    ELSE [fp |-> fp, disk |-> d, removed |-> removed, err |-> "none"]

\* The eviction loop: pop the first path and os.remove it while the list holds
\* at least k paths.  os.remove raises on a path that is not on disk, after
\* the pop.
RECURSIVE EvictLoop(_, _, _, _)
EvictLoop(fp, d, removed, k) ==
    IF Len(fp) >= k
    THEN IF Head(fp) \in Files(d)
         THEN EvictLoop(Tail(fp), Remove(d, Head(fp)), Append(removed, Head(fp)), k)
         ELSE [fp |-> Tail(fp), disk |-> d, removed |-> removed, err |-> "FileNotFound"]
    ELSE [fp |-> fp, disk |-> d, removed |-> removed, err |-> "none"]

\* The outcomes of cdb.save(path): the whole snapshot written, an error with
\* nothing written, an error with the file left partly written.  The device
\* holds DiskCap files: a write of a new file to a full device fails, as does
\* a write into a directory that does not exist.
SaveOutcomes == {"ok", "fail", "partial"}

HasRoom(d, path) == dirExists /\ (path \in Files(d) \/ Cardinality(Files(d)) < DiskCap)

\* The list after a successful write.
Appended(fp, path) == Append(fp, path)

Save(c, m, out) ==
    LET path == CkptName(steps, c)
        e == EvictLoop(file_paths, disk, <<>>, max_to_keep)
    IN  /\ ret' = e.removed
        /\ IF e.err # "none"
           THEN /\ disk' = e.disk
                /\ file_paths' = e.fp
                /\ UNCHANGED count
                /\ op' = Called("save", e.err, m, NoPath)
           ELSE IF out = "ok"
           THEN /\ HasRoom(e.disk, path)
                /\ disk' = Write(e.disk, path, m)
                /\ file_paths' = Appended(e.fp, path)
                /\ count' = c
                /\ op' = Called("save", "none", m, path)
           ELSE /\ IF out = "partial" /\ HasRoom(e.disk, path)
                   THEN disk' = Write(e.disk, path, "partial")
                   ELSE disk' = e.disk
                /\ file_paths' = e.fp
                /\ UNCHANGED count
                /\ op' = Called("save", "PersistenceFailure", m, path)
        /\ cdb' = "fresh"
        /\ UNCHANGED <<dirExists, dirHasTag, steps, max_to_keep>>

-----------------------------------------------------------------------------
(* Checkpoint.populate and Checkpoint.restore_and_populate *)

\* Mutant: the first (oldest) path.
PopulateOldest(fp) == Head(fp)

\* The path populate hands to cdb.load.
PopulatePath(fp) == Last(fp)

\* Mutant: no guard on an empty list, so that indexing raises.
PopulateUnguarded(fp, d, out) ==
    IF fp = <<>>
    THEN [err |-> "IndexError", path |-> NoPath, cdb |-> "fresh"]
    ELSE LET p == PopulatePath(fp) IN
         IF out = "ok" /\ Complete(d, p)
         THEN [err |-> "none", path |-> p, cdb |-> d[p]]
         ELSE [err |-> "PersistenceFailure", path |-> p, cdb |-> "fresh"]

\* populate on a fresh CDB: cdb.load gives the snapshot of a completely
\* written file, and fails on a missing or partly written one (or, with
\* out = "fail", on an unreadable one).
PopulateResult(fp, d, out) ==
    IF fp = <<>>
    THEN [err |-> "NotRestored", path |-> NoPath, cdb |-> "fresh"]
    ELSE LET p == PopulatePath(fp) IN
         IF out = "ok" /\ Complete(d, p)
         THEN [err |-> "none", path |-> p, cdb |-> d[p]]
         ELSE [err |-> "PersistenceFailure", path |-> p, cdb |-> "fresh"]

LoadOutcomes == {"ok", "fail"}

Populate(out) ==
    LET r == PopulateResult(file_paths, disk, out) IN
    /\ cdb' = r.cdb
    /\ op' = Called("populate", r.err, "none", r.path)
    /\ ret' = <<>>
    /\ UNCHANGED <<disk, dirExists, dirHasTag, steps, max_to_keep, file_paths, count>>

RestoreAndPopulate(out) ==
    /\ \E r \in RestoreResults(disk, file_paths, count) :
          /\ file_paths' = r.fp
          /\ count' = r.count
          /\ IF r.err # "none"
             THEN /\ cdb' = "fresh"
                  /\ op' = Called("restore_and_populate", r.err, "none", NoPath)
             ELSE LET q == PopulateResult(r.fp, disk, out) IN
                  /\ cdb' = q.cdb
                  /\ op' = Called("restore_and_populate", q.err, "none", q.path)
    /\ ret' = <<>>
    /\ UNCHANGED <<disk, dirExists, dirHasTag, steps, max_to_keep>>

-----------------------------------------------------------------------------
(* The specification: a manager constructed over a directory with any        *)
(* initial content, then any sequence of calls.                              *)

\* The arguments a caller passes for steps and max_to_keep: valid values, zero
\* and a negative value.
NonPositive == {0, -1}
StepsArgs == StepsVals \cup NonPositive
KeepArgs == (1..MaxKeep) \cup NonPositive

\* No parent directory is looked at.
NoParent == [exists |-> FALSE, children |-> << >>]

InitNames ==
    { <<"checkpoint", "1", "1">>, <<"checkpoint", "2", "0">>,
      <<"checkpoint", "0", "2">>, <<"checkpoint", "abc", "1">>,
      <<"x", "1", "2">> }

InitDisks ==
    {[f \in S |-> "m1"] : S \in {T \in SUBSET InitNames : Cardinality(T) <= DiskCap}}

Init ==
    /\ disk \in InitDisks
    /\ dirExists = TRUE
    /\ dirHasTag \in BOOLEAN
    /\ steps \in StepsVals
    /\ max_to_keep \in 1..MaxKeep
    /\ file_paths = <<>>
    /\ count = 0
    /\ op = Called("construct", "none", "none", NoPath)
    /\ ret = <<>>
    /\ cdb = "fresh"
    /\ saved = <<>>
    /\ parent = NoParent

Next ==
    \/ \E s \in StepsArgs, k \in KeepArgs : Construct(s, k) /\ UNCHANGED <<saved, parent>>
    \/ \E v \in StepsArgs : SetSteps(v) /\ UNCHANGED <<saved, parent>>
    \/ \E v \in KeepArgs : SetMaxToKeep(v) /\ UNCHANGED <<saved, parent>>
    \/ Load /\ UNCHANGED <<saved, parent>>
    \/ Restore /\ UNCHANGED <<saved, parent>>
    \/ Purge /\ UNCHANGED <<saved, parent>>
    \/ \E c \in Counts, m \in Models, out \in SaveOutcomes : Save(c, m, out) /\ UNCHANGED <<saved, parent>>
    \/ \E out \in LoadOutcomes : Populate(out) /\ UNCHANGED <<saved, parent>>
    \/ \E out \in LoadOutcomes : RestoreAndPopulate(out) /\ UNCHANGED <<saved, parent>>

Spec == Init /\ [][Next]_vars

-----------------------------------------------------------------------------
(* A fresh run: a manager constructed over an empty directory, then only    *)
(* successful saves with strictly increasing count.                         *)

InitFresh ==
    /\ disk = EmptyDisk
    /\ dirExists = TRUE
    /\ dirHasTag \in BOOLEAN
    /\ steps \in StepsVals
    /\ max_to_keep \in 1..MaxKeep
    /\ file_paths = <<>>
    /\ count = 0
    /\ op = Called("construct", "none", "none", NoPath)
    /\ ret = <<>>
    /\ cdb = "fresh"
    /\ saved = <<>>
    /\ parent = NoParent

NextFresh ==
    \E c \in FreshCounts, m \in Models :
        /\ IF saved = <<>> THEN TRUE ELSE c > Last(saved).count
        /\ Save(c, m, "ok")
        /\ saved' = Append(saved, [path |-> CkptName(steps, c), count |-> c, model |-> m])
        /\ UNCHANGED parent

SpecFresh == InitFresh /\ [][NextFresh]_vars

-----------------------------------------------------------------------------
(* The directory shared with other processes: files and the directory itself
   can be removed between two calls and while purge runs. *)

\* Another process removes one file of the directory.
ExternalRemove(f) ==
    /\ f \in Files(disk)
    /\ disk' = Remove(disk, f)
    /\ op' = Called("external", "none", "none", NoPath)
    /\ ret' = <<>>
    /\ cdb' = "fresh"
    /\ UNCHANGED <<dirExists, dirHasTag, steps, max_to_keep, file_paths, count>>

\* Another process removes the directory and what it holds.
ExternalRemoveDir ==
    /\ dirExists
    /\ disk' = EmptyDisk
    /\ dirExists' = FALSE
    /\ op' = Called("external", "none", "none", NoPath)
    /\ ret' = <<>>
    /\ cdb' = "fresh"
    /\ UNCHANGED <<dirHasTag, steps, max_to_keep, file_paths, count>>

\* Mutant: no os.path.isfile guard, os.remove raises on a file that is gone.
RECURSIVE PurgeLoopUnguarded(_, _, _, _, _)
PurgeLoopUnguarded(s, d, removed, early, late) ==
    IF s = <<>>
    THEN [disk |-> d, removed |-> removed, err |-> "none"]
    ELSE IF Head(s) \in early \cup late \/ Head(s) \notin Files(d)
    THEN [disk |-> Remove(d, Head(s)), removed |-> removed, err |-> "FileNotFound"]
    ELSE PurgeLoopUnguarded(Tail(s), Remove(d, Head(s)), Append(removed, Head(s)), early, late)

\* The loop of purge over the scan result s while another process removes
\* files: a file of early is gone when os.path.isfile looks at it and is
\* skipped; a file of late goes between os.path.isfile and os.remove, which
\* raises and ends the loop.
RECURSIVE PurgeLoopRaced(_, _, _, _, _)
PurgeLoopRaced(s, d, removed, early, late) ==
    IF s = <<>>
    THEN [disk |-> d, removed |-> removed, err |-> "none"]
    ELSE IF Head(s) \in early \/ Head(s) \notin Files(d)
    THEN PurgeLoopRaced(Tail(s), Remove(d, Head(s)), removed, early, late)
    ELSE IF Head(s) \in late
    THEN [disk |-> Remove(d, Head(s)), removed |-> removed, err |-> "FileNotFound"]
    ELSE PurgeLoopRaced(Tail(s), Remove(d, Head(s)), Append(removed, Head(s)), early, late)

\* Checkpoint.purge on the shared directory.
PurgeRaced(early, late) ==
    /\ early \cap late = {}
    /\ IF ~dirExists
       THEN /\ early = {} /\ late = {}
            /\ UNCHANGED <<disk, file_paths, count>>
            /\ ret' = <<>>
            /\ op' = Called("purge", "FileNotFound", "none", NoPath)
       ELSE IF ScanFails(disk)
       THEN /\ early = {} /\ late = {}
            /\ UNCHANGED <<disk, file_paths, count>>
            /\ ret' = <<>>
            /\ op' = Called("purge", "CorruptCheckpointName", "none", NoPath)
       ELSE \E s \in Scans(disk) :
            LET p == PurgeLoopRaced(s, disk, <<>>, early, late) IN
            /\ disk' = p.disk
            /\ ret' = p.removed
            /\ IF p.err = "none"
               THEN file_paths' = <<>> /\ count' = 0
               ELSE UNCHANGED <<file_paths, count>>
            /\ op' = Called("purge", p.err, "none", NoPath)
    /\ cdb' = "fresh"
    /\ UNCHANGED <<dirExists, dirHasTag, steps, max_to_keep>>

NextShared ==
    \/ \E s \in StepsArgs, k \in KeepArgs : Construct(s, k) /\ UNCHANGED <<saved, parent>>
    \/ \E v \in StepsArgs : SetSteps(v) /\ UNCHANGED <<saved, parent>>
    \/ \E v \in KeepArgs : SetMaxToKeep(v) /\ UNCHANGED <<saved, parent>>
    \/ Load /\ UNCHANGED <<saved, parent>>
    \/ Restore /\ UNCHANGED <<saved, parent>>
    \/ \E early, late \in SUBSET Filtered(disk) : PurgeRaced(early, late) /\ UNCHANGED <<saved, parent>>
    \/ \E c \in Counts, m \in Models, out \in SaveOutcomes : Save(c, m, out) /\ UNCHANGED <<saved, parent>>
    \/ \E out \in LoadOutcomes : Populate(out) /\ UNCHANGED <<saved, parent>>
    \/ \E out \in LoadOutcomes : RestoreAndPopulate(out) /\ UNCHANGED <<saved, parent>>
    \/ \E f \in Files(disk) : ExternalRemove(f) /\ UNCHANGED <<saved, parent>>
    \/ ExternalRemoveDir /\ UNCHANGED <<saved, parent>>

\* The shared directory is one whose path does not hold the tag.
InitShared == Init /\ ~dirHasTag

SpecShared == InitShared /\ [][NextShared]_vars

-----------------------------------------------------------------------------
(* A parent directory of training runs, and a caller of from_last_training. *)

\* The names of the entries of the parent: "a", "b", "ab", "ba".
ChildNames == {<<1>>, <<2>>, <<1, 2>>, <<2, 1>>}

\* What a run directory holds.
ChildDisks ==
    {d \in InitDisks : Files(d) \in {{}, {<<"checkpoint", "1", "1">>},
                                      {<<"checkpoint", "1", "1">>, <<"checkpoint", "2", "0">>},
                                      {<<"checkpoint", "abc", "1">>},
                                      {<<"checkpoint", "0", "2">>}}}

\* An entry of the parent: a regular file or a directory.
ChildEntries ==
    {[isdir |-> FALSE, files |-> EmptyDisk]} \cup {[isdir |-> TRUE, files |-> d] : d \in ChildDisks}

Parents ==
    {NoParent} \cup
    UNION {{[exists |-> TRUE, children |-> c] : c \in [N -> ChildEntries]} : N \in SUBSET ChildNames}

\* The caller holds a new manager over an empty directory of its own.
InitParent ==
    /\ disk = EmptyDisk
    /\ dirExists = TRUE
    /\ dirHasTag \in BOOLEAN
    /\ steps \in StepsVals
    /\ max_to_keep = DefaultMaxToKeep
    /\ file_paths = <<>>
    /\ count = 0
    /\ op = Called("construct", "none", "none", NoPath)
    /\ ret = <<>>
    /\ cdb = "fresh"
    /\ saved = <<>>
    /\ parent \in Parents

NextParent == FromLastTraining /\ UNCHANGED saved

SpecParent == InitParent /\ [][NextParent]_vars

-----------------------------------------------------------------------------
(* Claims. *)

SaveSucceeded == op.name = "save" /\ op.err = "none"

\* C1: in a fresh run over an empty directory with max_to_keep = N, after k
\* successful saves with strictly increasing count the files on disk and
\* file_paths are both exactly the last min(k, N) saved checkpoints, in the
\* order saved (ascending count), each holding the snapshot saved; every
\* older one is gone from disk, and a save beyond the N-th deleted exactly
\* the file with the smallest count.
C1_FreshRunKeepsLastN ==
    LET k == Len(saved)
        n == IF k < max_to_keep THEN k ELSE max_to_keep
    IN  /\ Len(file_paths) = n
        /\ \A i \in 1..n : file_paths[i] = saved[k - n + i].path
        /\ Files(disk) = {saved[k - n + i].path : i \in 1..n}
        /\ Cardinality(Files(disk)) = n
        /\ \A i \in 1..n : disk[saved[k - n + i].path] = saved[k - n + i].model
        /\ \A i, j \in 1..n : i < j => saved[k - n + i].count < saved[k - n + j].count
        /\ \A i, j \in 1..n :
              i < j /\ Parses(file_paths[i]) /\ Parses(file_paths[j])
                 => GetCount(file_paths[i]) < GetCount(file_paths[j])
        /\ \A i \in 1..(k - n) : saved[i].path \notin Files(disk)
        /\ k > max_to_keep => ret = <<saved[k - n].path>>

\* C1 witness: the save after the N-th, with N = 2.
C1_Witness == max_to_keep = 2 /\ Len(saved) = 3 /\ SaveSucceeded

\* C2: in every state reached right after a successful save, file_paths holds
\* at most max_to_keep paths, whatever calls came before.
C2_SaveBoundsFilePaths == SaveSucceeded => Len(file_paths) <= max_to_keep

\* C2 witness: a successful save that had to evict two paths, the list having
\* been longer than max_to_keep (a load over two files, or max_to_keep lowered).
C2_Witness == SaveSucceeded /\ Len(ret) = 2 /\ Len(file_paths) = max_to_keep

C4_Original ==
    [][ (op'.name = "save" /\ op'.err = "PersistenceFailure")
           => (file_paths' = file_paths /\ count' = count) ]_vars

\* C5: in every reachable state count is the count embedded in the last
\* element of file_paths, and 0 when file_paths is empty.
C5_Original ==
    IF file_paths = <<>>
    THEN count = 0
    ELSE Parses(Last(file_paths)) /\ count = GetCount(Last(file_paths))

\* C6: in every reachable state file_paths is sorted ascending by the count
\* embedded in each name.
C6_Original ==
    \A i, j \in DOMAIN file_paths :
        i < j => /\ Parses(file_paths[i])
                 /\ Parses(file_paths[j])
                 /\ GetCount(file_paths[i]) <= GetCount(file_paths[j])

\* A restore_and_populate that directly follows a successful save.
RoundTripStep == SaveSucceeded /\ op'.name = "restore_and_populate"

\* The restore_and_populate handed cdb.load the path the save wrote, and a
\* load that succeeded gave the model saved.
RoundTrips == op'.path = op.path /\ (op'.err = "none" => cdb' = op.model)

LoadSucceeded == op.name = "load" /\ op.err = "none"

C10_Populate ==
    [][ op'.name = "populate" =>
          /\ (op'.err = "NotRestored") <=> (file_paths = <<>>)
          /\ file_paths' = file_paths /\ count' = count /\ disk' = disk
          /\ file_paths = <<>> => (op'.path = NoPath /\ cdb' = "fresh")
          /\ file_paths # <<>> => op'.path = file_paths[Len(file_paths)]
      ]_vars

\* C10 witness: a populate on a manager whose file_paths is empty.
C10_Witness == op.name = "populate" /\ op.err = "NotRestored" /\ file_paths = <<>>

-----------------------------------------------------------------------------
(* C11 *)

\* C11: steps and max_to_keep are positive in every state; a constructor or
\* setter call with a zero or negative value fails with InvalidArgument and
\* leaves steps, max_to_keep, file_paths and count as they were; a load whose
\* latest file name embeds non-positive steps returns no manager.
C11_PositiveSettings ==
    [][ /\ steps >= 1 /\ max_to_keep >= 1
        /\ steps' >= 1 /\ max_to_keep' >= 1
        /\ op'.name \in {"construct", "set_steps", "set_max_to_keep"} =>
           \A v \in NonPositive :
              ( \/ SetSteps(v)
                \/ SetMaxToKeep(v)
                \/ \E x \in StepsArgs : Construct(x, v)
                \/ \E x \in KeepArgs : Construct(v, x) )
              => op'.err = "InvalidArgument"
        /\ op'.err = "InvalidArgument" =>
              /\ steps' = steps /\ max_to_keep' = max_to_keep
              /\ file_paths' = file_paths /\ count' = count
        /\ op'.name = "load" /\ op'.err = "none" =>
              /\ steps' >= 1
              /\ file_paths' # <<>> /\ steps' = IntOf(Last(file_paths')[2])
      ]_vars

\* A setter call was rejected on a manager that holds a saved checkpoint.
C11_Witness ==
    /\ op.name \in {"set_steps", "set_max_to_keep"}
    /\ op.err = "InvalidArgument"
    /\ file_paths # <<>>
    /\ count > 0

-----------------------------------------------------------------------------
(* C12 *)

\* The directory holds no regular file that the checkpoint filter selects.
NoCheckpointFile == \A f \in Files(disk) : ~PassesFilter(f)

-----------------------------------------------------------------------------
(* C13 *)

\* Field x of a name is the decimal text of an integer.
IsNumber(x) == x \in Range(Digits)

\* A name from which integer steps and count can be read.
WellFormed(f) == Len(f) >= 3 /\ IsNumber(f[2]) /\ IsNumber(f[3])

\* The directory holds a file that passes the filter and is not well formed.
CorruptPresent == \E f \in Files(disk) : PassesFilter(f) /\ ~WellFormed(f)

\* C13: with such a file in the directory, load, restore and purge fail with
\* CorruptCheckpointName, delete nothing and leave file_paths and count as
\* they were.
C13_CorruptNameFailsWhole ==
    [][ op'.name \in {"load", "restore", "purge"} /\ CorruptPresent =>
            /\ op'.err = "CorruptCheckpointName"
            /\ disk' = disk
            /\ ret' = <<>>
            /\ file_paths' = file_paths
            /\ count' = count
      ]_vars

\* A purge failed on a directory that holds a well-formed checkpoint next to
\* the corrupt name, for a manager that lists a saved path.
C13_Witness ==
    /\ op.name = "purge"
    /\ op.err = "CorruptCheckpointName"
    /\ CorruptPresent
    /\ \E f \in Files(disk) : NameHasTag(f) /\ WellFormed(f)
    /\ file_paths # <<>>

-----------------------------------------------------------------------------
(* C14 *)

\* a <= b in lexicographic order.
RECURSIVE LexLeq(_, _)
LexLeq(a, b) ==
    \/ a = <<>>
    \/ /\ b # <<>>
       /\ \/ Head(a) < Head(b)
          \/ Head(a) = Head(b) /\ LexLeq(Tail(a), Tail(b))

\* The entry of the parent whose name is lexicographically greatest.
GreatestChild ==
    LET names == DOMAIN parent.children
    IN  parent.children[CHOOSE g \in names : \A n \in names : LexLeq(n, g)]

\* C14: from_last_training fails with NotFound when the parent does not
\* exist or has no entry; otherwise its error, or the manager it returns and
\* the directory that manager is over, are what load gives on the
\* lexicographically greatest entry of the parent.
C14_FromLastTraining ==
    [][ op'.name = "from_last_training" =>
          IF ~parent.exists \/ DOMAIN parent.children = {}
          THEN op'.err = "NotFound" /\ UNCHANGED <<mgr, disk>>
          ELSE \E r \in LoadReturns(GreatestChild.isdir, GreatestChild.files) :
                  /\ op'.err = r.err
                  /\ r.err = "none" =>
                        /\ steps' = r.steps
                        /\ max_to_keep' = r.max_to_keep
                        /\ file_paths' = r.fp
                        /\ count' = r.count
                        /\ disk' = GreatestChild.files
      ]_vars

\* A manager was returned from a parent that holds several run directories
\* with checkpoints, where the greatest name is not the longest one.
C14_Witness ==
    /\ op.name = "from_last_training"
    /\ op.err = "none"
    /\ DOMAIN parent.children = {<<1>>, <<1, 2>>, <<2>>}
    /\ \A n \in DOMAIN parent.children :
          parent.children[n].isdir /\ Files(parent.children[n].files) # {}
    /\ disk = parent.children[<<2>>].files
    /\ disk # parent.children[<<1, 2>>].files
    /\ disk # parent.children[<<1>>].files

-----------------------------------------------------------------------------
(* C15 *)

\* C15 as stated: a regular file whose name does not hold the tag is never
\* listed, returned or deleted by load, restore or purge.
C15_Original ==
    [][ op'.name \in {"load", "restore", "purge"} =>
          \A f \in Files(disk) :
              ~NameHasTag(f) =>
                  /\ f \in Files(disk')
                  /\ f \notin Range(file_paths')
                  /\ f \notin Range(ret')
      ]_vars

-----------------------------------------------------------------------------
(* C16 *)

\* The checkpoint files of directory d: the regular files discovery selects.
CheckpointFiles(d) == {f \in Files(d) : PassesFilter(f)}

-----------------------------------------------------------------------------
(* C17 *)

\* The number of entries a save has to evict from a list of length l with
\* max_to_keep m: max(0, l - m + 1).
ToEvict(l, m) == IF l - m + 1 > 0 THEN l - m + 1 ELSE 0

\* C17: when save invokes the model's save, the files it has deleted are the
\* first max(0, L - M + 1) entries of file_paths, in list order; a save
\* deletes no file besides entries of that front, whatever its outcome; the
\* eviction loop makes at most that many iterations and the call ends, with
\* a result or an error, from every state.
C17_SaveEvictsFront ==
    /\ [](\A c \in Counts, m \in Models : ENABLED Save(c, m, "fail"))
    /\ [][ op'.name = "save" =>
              LET n == ToEvict(Len(file_paths), max_to_keep) IN
              /\ op'.path # NoPath => ret' = SubSeq(file_paths, 1, n)
              /\ op'.path = NoPath => op'.err = "FileNotFound"
              /\ \E k \in 0..n : ret' = SubSeq(file_paths, 1, k)
              /\ Files(disk) \ Range(ret') \subseteq Files(disk')
              /\ \A f \in Range(ret') : f \in Files(disk') => f = op'.path
              /\ Len(file_paths') >= Len(file_paths) - n
          ]_vars

\* A successful save evicted two files before it wrote.
C17_Witness ==
    /\ op.name = "save"
    /\ op.err = "none"
    /\ Len(ret) = 2
    /\ ret[1] # ret[2]
    /\ file_paths = <<op.path>>

-----------------------------------------------------------------------------
(* C18 *)

\* Some entry that the next save has to evict is not on disk.
EvicteeGone ==
    \E i \in 1..ToEvict(Len(file_paths), max_to_keep) :
        i <= Len(file_paths) /\ file_paths[i] \notin Files(disk)

\* C18 as stated: a save that has to evict a file that is gone, and a purge
\* during which a listed file is removed by another process before purge
\* deletes it, both end with the error of the failed deletion.
C18_Original ==
    [][ /\ op'.name = "save" /\ EvicteeGone => op'.err = "FileNotFound"
        /\ op'.name = "purge" =>
              \A early, late \in SUBSET CheckpointFiles(disk) :
                  PurgeRaced(early, late) /\ early \cup late # {} => op'.err = "FileNotFound"
      ]_vars

\* C18, amended: a save that has to evict a file that is gone ends with the
\* error, does not invoke the model's save and leaves count as it was.  A
\* purge skips a listed file that is gone when purge looks at it: if no file
\* goes between that look and its removal, purge succeeds, returns the files
\* it removed itself, and leaves no listed file on disk; if one does, purge
\* ends with the error and file_paths and count are as they were.
C18_MissingFileAtDelete ==
    [][ /\ op'.name = "save" /\ EvicteeGone =>
              /\ op'.err = "FileNotFound"
              /\ op'.path = NoPath
              /\ count' = count
        /\ op'.name = "purge" /\ dirExists /\ ~CorruptPresent =>
              /\ \A early \in SUBSET CheckpointFiles(disk) :
                    PurgeRaced(early, {}) =>
                        /\ op'.err = "none"
                        /\ Range(ret') = CheckpointFiles(disk) \ early
                        /\ CheckpointFiles(disk') = {}
                        /\ file_paths' = <<>>
                        /\ count' = 0
              /\ op'.err # "none" =>
                    /\ op'.err = "FileNotFound"
                    /\ \E f \in CheckpointFiles(disk) \ Range(ret') : f \notin Files(disk')
                    /\ file_paths' = file_paths
                    /\ count' = count
      ]_vars

\* A save ended with the error of a failed deletion in a directory that
\* exists, and still lists a path it did not come to evict.
C18_Witness ==
    /\ op.name = "save"
    /\ op.err = "FileNotFound"
    /\ dirExists
    /\ file_paths # <<>>
    /\ Range(file_paths) \subseteq Files(disk)

-----------------------------------------------------------------------------
(* C19 *)

\* C19 as stated: every path of file_paths names a file on disk and no path
\* occurs twice.
C19_Original ==
    /\ \A i \in DOMAIN file_paths : file_paths[i] \in Files(disk)
    /\ \A i, j \in DOMAIN file_paths : file_paths[i] = file_paths[j] => i = j

-----------------------------------------------------------------------------
(* C20 *)

\* The completely written checkpoint files of directory d.
CompleteCheckpoints(d) == {f \in Files(d) : NameHasTag(f) /\ d[f] \in Models}

\* C20 as stated: a save call on a directory that holds a completely written
\* checkpoint file leaves one there, whether it succeeds or fails.  Stated
\* for the saves whose path is not the name of a file already on disk, which
\* leaves aside a failed write over an existing checkpoint.
C20_Original ==
    [][ op'.name = "save" /\ op'.path \notin Files(disk) /\ CompleteCheckpoints(disk) # {} =>
            CompleteCheckpoints(disk') # {}
      ]_vars

=============================================================================
